---- MODULE Spec2Model ----
(***************************************************************************)
(* Model of dynamodb_encryption_sdk/encrypted/resource.py:                 *)
(* EncryptedResource (crypto-config resolution, batch_get_item,            *)
(* batch_write_item, Table) and EncryptedTablesCollectionManager.          *)
(*                                                                         *)
(* AttributeActions objects live in a heap and are handled by reference,   *)
(* as in Python, so that a copy and an alias are different things.  Every  *)
(* handler is one action; inside it the handler's statements are threaded  *)
(* through an execution record st: the heap, self, the calls made to the   *)
(* collaborators, the exception raised and the value returned.             *)
(***************************************************************************)
EXTENDS Integers, Sequences, FiniteSets, TLC

VARIABLES
    heap,            \* AttributeActions objects, by reference (index)
    self,            \* the EncryptedResource's attributes
    constructed,     \* what the constructor was given (never assigned again)
    pc,              \* the caller: "ready" to call, or holding what a call "returned"
    call,            \* the last call: arguments, what reached the collaborators, result
    gens,            \* the generators handed out by the collection manager
    collectionCalls  \* how often each underlying collection method was invoked

vars == <<heap, self, constructed, pc, call, gens, collectionCalls>>

------------------------------------------------------------------------------
(* Bounds *)

\* most write requests in one batch_write_item call, over all its tables
MaxReqs == 3
\* most raw items in one underlying batch_get_item response, over all its tables
MaxItems == 3
\* most generators obtained from the collection manager
MaxGens == 2

------------------------------------------------------------------------------
(* Values *)

Tables == {"A", "B", "Z"}
\* a fixed enumeration of Tables, used only to lay out inputs
TableSeq == <<"A", "B", "Z">>
\* the tables that exist in the underlying resource
Existing == {"A", "B"}
\* the underlying tables collection, in its order
CollectionTables == <<"A", "B">>
CollectionMethods == {"all", "filter", "limit", "page_size"}

CryptoActions == {"ENCRYPT_AND_SIGN", "SIGN_ONLY", "DO_NOTHING"}
NoError == "none"
ReservedAttribute == "*amzn-ddb-map-sig*"

Plain(v) == [pt |-> v]
Cipher(v, mp, ctx) == [ct |-> v, mp |-> mp, ctx |-> ctx]
IsCipher(x) == "ct" \in DOMAIN x

\* references of the two AttributeActions objects that outlive a call
SelfActionsRef == 1
CallerActionsRef == 2

\* the caller's own AttributeActions object (used in overrides): protects everything
CallerActions == [default_action |-> "ENCRYPT_AND_SIGN", attribute_actions |-> <<>>]

\* a CryptoConfig the caller builds for one request
RequestConfig ==
    [materials_provider |-> "OtherCMP",
     encryption_context |-> [table_name |-> "custom"],
     attribute_actions |-> CallerActionsRef]

\* a TableInfo the caller builds for one Table() call
CallerTableInfo == [name |-> "custom", primary |-> {"data"}, secondary |-> {}]

------------------------------------------------------------------------------
(* Helpers *)

Range(s) == {s[i] : i \in DOMAIN s}

Perms(S) == {p \in [1..Cardinality(S) -> S] : Range(p) = S}

Count(s, x) == Cardinality({i \in DOMAIN s : s[i] = x})

\* position of the first x in s (0 when absent)
FirstIndex(s, x) ==
    IF x \in Range(s) THEN CHOOSE i \in DOMAIN s : s[i] = x /\ \A j \in 1..(i - 1) : s[j] # x
    ELSE 0

\* one handler's execution record
NewExec(h, slf, payload) ==
    [heap |-> h, self |-> slf, log |-> <<>>, error |-> NoError, ret |-> <<>>, configs |-> <<>>,
     sent |-> <<>>, data |-> payload]

Raise(st, e) == [st EXCEPT !.error = e]
Emit(st, ev) == [st EXCEPT !.log = Append(@, ev)]
Return(st, v) == [st EXCEPT !.ret = v]

------------------------------------------------------------------------------
(* Collaborators *)

\* AttributeActions.attribute_action(name)
attribute_action(aa, name) ==
    IF name \in DOMAIN aa.attribute_actions THEN aa.attribute_actions[name]
    ELSE aa.default_action

\* AttributeActions.copy(): a new object with the same content
copy(st, ref) ==
    Return([st EXCEPT !.heap = Append(@, st.heap[ref])], Len(st.heap) + 1)

\* AttributeActions.set_index_keys(*keys): in place, every key unprotected
set_index_keys(st, ref, keys) ==
    [st EXCEPT !.heap[ref].attribute_actions =
        [a \in (DOMAIN @) \cup keys |-> IF a \in keys THEN "DO_NOTHING" ELSE @[a]]]

\* the schema of a table
TableInfoOf(name) ==
    [name |-> name, primary |-> {"id"}, secondary |-> IF name = "B" THEN {"gsi"} ELSE {}]

protected_index_keys(table_info) == table_info.primary \cup table_info.secondary

encryption_context_values(table_info) == [table_name |-> table_info.name]

\* TableInfoCache.table_info(name)
table_info(st, name) ==
    LET st1 == Emit(st, "table_info")
    IN  IF name \in Existing THEN Return(st1, TableInfoOf(name))
        ELSE Raise(st1, "TableInfoUnavailable")

\* a CryptoConfig with its AttributeActions read out of the heap
Snapshot(st, cfg) == [cfg EXCEPT !.attribute_actions = st.heap[@]]

\* encrypt_python_item(item, crypto_config)
encrypt_python_item(st, item, crypto_config) ==
    LET aa == st.heap[crypto_config.attribute_actions]
        st1 == Emit(st, "encrypt")
    IN  IF ReservedAttribute \in DOMAIN item THEN Raise(st1, "EncryptionError")
        ELSE Return(st1,
               [a \in DOMAIN item |->
                   IF attribute_action(aa, a) = "ENCRYPT_AND_SIGN"
                   THEN Cipher(item[a].pt, crypto_config.materials_provider,
                               crypto_config.encryption_context)
                   ELSE item[a]])

\* decrypt_python_item(item, crypto_config)
decrypt_python_item(st, item, crypto_config) ==
    LET aa == st.heap[crypto_config.attribute_actions]
        st1 == Emit(st, "decrypt")
        Mine(x) == /\ x.mp = crypto_config.materials_provider
                   /\ x.ctx = crypto_config.encryption_context
        Protected(a) == attribute_action(aa, a) = "ENCRYPT_AND_SIGN" /\ IsCipher(item[a])
    IN  IF \E a \in DOMAIN item : Protected(a) /\ ~Mine(item[a])
        THEN Raise(st1, "DecryptionError")
        ELSE Return(st1,
               [a \in DOMAIN item |-> IF Protected(a) THEN Plain(item[a].ct) ELSE item[a]])

\* self._resource.batch_get_item(**kwargs), answering raw
resource_batch_get_item(st, kwargs, raw) ==
    LET st1 == [Emit(st, "batch_get_item") EXCEPT !.sent = Append(@, kwargs)]
    IN  IF DOMAIN kwargs.RequestItems \subseteq Existing THEN Return(st1, raw)
        ELSE Raise(st1, "ResourceNotFoundException")

\* what the underlying resource answers to a batch write
UnderlyingWriteResponse == [UnprocessedItems |-> <<>>]

\* self._resource.batch_write_item(**kwargs)
resource_batch_write_item(st, kwargs) ==
    LET st1 == [Emit(st, "batch_write_item") EXCEPT !.sent = Append(@, kwargs)]
    IN  IF DOMAIN kwargs.RequestItems \subseteq Existing
        THEN Return(st1, UnderlyingWriteResponse)
        ELSE Raise(st1, "ResourceNotFoundException")

\* validate_get_arguments(kwargs)
validate_get_arguments(st, table_kwargs) ==
    LET st1 == Emit(st, "validate")
    IN  IF "ProjectionExpression" \in DOMAIN table_kwargs
        THEN Raise(st1, "InvalidArgumentError")
        ELSE st1

------------------------------------------------------------------------------
(* EncryptedResource._crypto_config *)

_crypto_config_no_index_keys(st, table_name) ==
    LET ti == table_info(st, table_name)
    IN  IF ti.error # NoError THEN ti
        ELSE LET cp == copy(ti, st.self._attribute_actions)
             IN  Return(cp,
                   [materials_provider |-> st.self._materials_provider,
                    encryption_context |-> encryption_context_values(ti.ret),
                    attribute_actions |-> cp.ret])

_crypto_config_no_copy(st, table_name) ==
    LET ti == table_info(st, table_name)
    IN  IF ti.error # NoError THEN ti
        ELSE LET ik == set_index_keys(ti, st.self._attribute_actions, protected_index_keys(ti.ret))
             IN  Return(ik,
                   [materials_provider |-> st.self._materials_provider,
                    encryption_context |-> encryption_context_values(ti.ret),
                    attribute_actions |-> st.self._attribute_actions])

_crypto_config(st, table_name) ==
    LET ti == table_info(st, table_name)
    IN  IF ti.error # NoError THEN ti
        ELSE LET cp == copy(ti, st.self._attribute_actions)
                 ik == set_index_keys(cp, cp.ret, protected_index_keys(ti.ret))
             IN  Return(ik,
                   [materials_provider |-> st.self._materials_provider,
                    encryption_context |-> encryption_context_values(ti.ret),
                    attribute_actions |-> cp.ret])

\* lines 191-194 and 211-214: the request's crypto_config when given, else the table's
TableCryptoConfig_ignores_override(st, kwargs, table_name) ==
    LET c == _crypto_config(st, table_name)
    IN  IF c.error # NoError THEN c
        ELSE [c EXCEPT !.configs = (table_name :> Snapshot(c, c.ret)) @@ @]

TableCryptoConfig(st, kwargs, table_name) ==
    LET c == IF "crypto_config" \in DOMAIN kwargs
             THEN Return(st, kwargs.crypto_config)
             ELSE _crypto_config(st, table_name)
    IN  IF c.error # NoError THEN c
        ELSE [c EXCEPT !.configs = (table_name :> Snapshot(c, c.ret)) @@ @]

------------------------------------------------------------------------------
(* EncryptedResource.batch_write_item *)

\* lines 217-223 with a bug: the Key of a DeleteRequest is encrypted as well
WriteRequest_encrypts_deletes(st, table_name, pos, crypto_config) ==
    LET req == st.data[table_name][pos]
    IN  IF "PutRequest" \in DOMAIN req
        THEN LET e == encrypt_python_item(st, req.PutRequest.Item, crypto_config)
             IN  IF e.error # NoError THEN e
                 ELSE [e EXCEPT !.data[table_name][pos].PutRequest.Item = e.ret]
        ELSE LET e == encrypt_python_item(st, req.DeleteRequest.Key, crypto_config)
             IN  IF e.error # NoError THEN e
                 ELSE [e EXCEPT !.data[table_name][pos].DeleteRequest.Key = e.ret]

\* lines 217-223: one request of one table
WriteRequest(st, table_name, pos, crypto_config) ==
    LET req == st.data[table_name][pos]
    IN  IF "PutRequest" \in DOMAIN req
        THEN LET e == encrypt_python_item(st, req.PutRequest.Item, crypto_config)
             IN  IF e.error # NoError THEN e
                 ELSE [e EXCEPT !.data[table_name][pos].PutRequest.Item = e.ret]
        ELSE st

\* line 216: for pos in range(len(items))
RECURSIVE WriteRequests(_, _, _, _)
WriteRequests(st, table_name, pos, crypto_config) ==
    IF st.error # NoError \/ pos > Len(st.data[table_name]) THEN st
    ELSE WriteRequests(WriteRequest(st, table_name, pos, crypto_config),
                       table_name, pos + 1, crypto_config)

\* lines 210-223 with a bug: an exception raised for one table is swallowed
WriteTable_swallows_errors(st, kwargs, table_name) ==
    LET c == TableCryptoConfig(st, kwargs, table_name)
        w == IF c.error # NoError THEN c ELSE WriteRequests(c, table_name, 1, c.ret)
    IN  [w EXCEPT !.error = NoError]

\* lines 210-223: one table of the request
WriteTable(st, kwargs, table_name) ==
    LET c == TableCryptoConfig(st, kwargs, table_name)
    IN  IF c.error # NoError THEN c ELSE WriteRequests(c, table_name, 1, c.ret)

\* line 210: for table_name, items in kwargs['RequestItems'].items()
RECURSIVE WriteTables(_, _, _, _)
WriteTables(st, kwargs, order, i) ==
    IF st.error # NoError \/ i > Len(order) THEN st
    ELSE WriteTables(WriteTable(st, kwargs, order[i]), kwargs, order, i + 1)

\* batch_write_item(**kwargs); order is the iteration order of kwargs['RequestItems']
batch_write_item(st, kwargs, order) ==
    LET done == WriteTables(st, kwargs, order, 1)
    IN  IF done.error # NoError THEN done
        ELSE resource_batch_write_item(done, [RequestItems |-> done.data])

------------------------------------------------------------------------------
(* EncryptedResource.batch_get_item *)

\* lines 186-187 with a bug: only the first table's read spec is validated
RECURSIVE ValidateTables_first_only(_, _, _, _)
ValidateTables_first_only(st, kwargs, order, i) ==
    IF st.error # NoError \/ i > 1 THEN st
    ELSE ValidateTables_first_only(
             validate_get_arguments(st, kwargs.RequestItems[order[i]]), kwargs, order, i + 1)

\* lines 186-187: for _table_name, table_kwargs in kwargs['RequestItems'].items()
RECURSIVE ValidateTables(_, _, _, _)
ValidateTables(st, kwargs, order, i) ==
    IF st.error # NoError \/ i > Len(order) THEN st
    ELSE ValidateTables(
             validate_get_arguments(st, kwargs.RequestItems[order[i]]), kwargs, order, i + 1)

\* lines 196-200 with a bug: the decrypted items are written back from the end
RECURSIVE DecryptItems_reversed(_, _, _, _)
DecryptItems_reversed(st, table_name, pos, crypto_config) ==
    IF st.error # NoError \/ pos > Len(st.data[table_name]) THEN st
    ELSE LET n == Len(st.data[table_name])
             d == decrypt_python_item(st, st.data[table_name][pos], crypto_config)
         IN  DecryptItems_reversed(
                 IF d.error # NoError \/ 2 * pos > n + 1 THEN d
                 ELSE LET e == decrypt_python_item(d, d.data[table_name][n + 1 - pos],
                                                   crypto_config)
                      IN  IF e.error # NoError THEN e
                          ELSE [e EXCEPT !.data[table_name][pos] = e.ret,
                                         !.data[table_name][n + 1 - pos] = d.ret],
                 table_name, pos + 1, crypto_config)

\* lines 196-200: for pos in range(len(items)): items[pos] = decrypt_python_item(...)
RECURSIVE DecryptItems(_, _, _, _)
DecryptItems(st, table_name, pos, crypto_config) ==
    IF st.error # NoError \/ pos > Len(st.data[table_name]) THEN st
    ELSE LET d == decrypt_python_item(st, st.data[table_name][pos], crypto_config)
         IN  DecryptItems(
                 IF d.error # NoError THEN d ELSE [d EXCEPT !.data[table_name][pos] = d.ret],
                 table_name, pos + 1, crypto_config)

\* lines 190-200: one table of the response
GetTable(st, kwargs, table_name) ==
    LET c == TableCryptoConfig(st, kwargs, table_name)
    IN  IF c.error # NoError THEN c ELSE DecryptItems(c, table_name, 1, c.ret)

\* line 190: for table_name, items in response['Responses'].items()
RECURSIVE GetTables(_, _, _, _)
GetTables(st, kwargs, order, i) ==
    IF st.error # NoError \/ i > Len(order) THEN st
    ELSE GetTables(GetTable(st, kwargs, order[i]), kwargs, order, i + 1)

\* batch_get_item(**kwargs); order is the iteration order of kwargs['RequestItems'],
\* raw what the underlying resource answers, rorder the iteration order of its Responses
batch_get_item(st, kwargs, order, raw, rorder) ==
    LET v == ValidateTables(st, kwargs, order, 1)
    IN  IF v.error # NoError THEN v
        ELSE LET response == resource_batch_get_item(
                                 v, [RequestItems |-> kwargs.RequestItems], raw)
             IN  IF response.error # NoError THEN response
                 ELSE LET d == GetTables([response EXCEPT !.data = response.ret.Responses],
                                         kwargs, rorder, 1)
                      IN  IF d.error # NoError THEN d
                          ELSE Return(d, [response.ret EXCEPT !.Responses = d.data])

------------------------------------------------------------------------------
(* EncryptedResource.Table *)

\* lines 242-250 with a bug: an override is stored as the resource's new default
Table_stores_override(st, name, kwargs) ==
    LET t == Emit(st, "Table")
        s == [t EXCEPT !.self._materials_provider =
                           IF "materials_provider" \in DOMAIN kwargs
                           THEN kwargs.materials_provider ELSE @]
        ti == table_info(s, name)
    IN  IF ti.error # NoError THEN ti
        ELSE Return(ti,
               [table |-> name,
                materials_provider |-> s.self._materials_provider,
                attribute_actions |->
                    IF "attribute_actions" \in DOMAIN kwargs
                    THEN kwargs.attribute_actions ELSE st.self._attribute_actions,
                auto_refresh_table_indexes |->
                    IF "auto_refresh_table_indexes" \in DOMAIN kwargs
                    THEN kwargs.auto_refresh_table_indexes
                    ELSE st.self._auto_refresh_table_indexes,
                table_info |-> ti.ret])

\* Table(name, **kwargs): the EncryptedTable's constructor arguments
Table(st, name, kwargs) ==
    LET t == Emit(st, "Table")
        ti == table_info(t, name)
    IN  IF ti.error # NoError THEN ti
        ELSE Return(ti,
               [table |-> name,
                materials_provider |->
                    IF "materials_provider" \in DOMAIN kwargs
                    THEN kwargs.materials_provider ELSE st.self._materials_provider,
                attribute_actions |->
                    IF "attribute_actions" \in DOMAIN kwargs
                    THEN kwargs.attribute_actions ELSE st.self._attribute_actions,
                auto_refresh_table_indexes |->
                    IF "auto_refresh_table_indexes" \in DOMAIN kwargs
                    THEN kwargs.auto_refresh_table_indexes
                    ELSE st.self._auto_refresh_table_indexes,
                table_info |-> ti.ret])

------------------------------------------------------------------------------
(* EncryptedTablesCollectionManager *)

Min(a, b) == IF a < b THEN a ELSE b

\* self._collection.all / filter / limit / page_size (**kwargs), iterated
collection_method(method, kwargs) ==
    CASE method = "filter" /\ "ExclusiveStartTableName" \in DOMAIN kwargs ->
            SubSeq(CollectionTables,
                   FirstIndex(CollectionTables, kwargs.ExclusiveStartTableName) + 1,
                   Len(CollectionTables))
      [] method = "limit" -> SubSeq(CollectionTables, 1, Min(kwargs.count, Len(CollectionTables)))
      [] OTHER -> CollectionTables

\* all(), filter(**kwargs), limit(**kwargs), page_size(**kwargs): calling the generator
\* function _transform_table runs none of its body
NewGenerator(method, kwargs) ==
    [method |-> method, kwargs |-> kwargs, state |-> "created", source |-> <<>>,
     pos |-> 0, yielded |-> <<>>]

\* line 65 with a bug: the tables of an earlier enumeration by the same method are
\* replayed instead of asking the underlying collection again
StartGenerator_replays(gs, i, calls) ==
    LET g == gs[i]
        earlier == {j \in DOMAIN gs : gs[j].method = g.method /\ gs[j].state # "created"}
    IN  IF earlier # {}
        THEN [gens |-> [gs EXCEPT ![i].state = "running",
                                  ![i].source = gs[CHOOSE j \in earlier : TRUE].source],
              calls |-> calls]
        ELSE [gens |-> [gs EXCEPT ![i].state = "running",
                                  ![i].source = collection_method(g.method, g.kwargs)],
              calls |-> [calls EXCEPT ![g.method] = @ + 1]]

\* line 65, entered: method(**kwargs) is invoked when the generator is first advanced
StartGenerator(gs, i, calls) ==
    LET g == gs[i]
    IN  [gens |-> [gs EXCEPT ![i].state = "running",
                             ![i].source = collection_method(g.method, g.kwargs)],
         calls |-> [calls EXCEPT ![g.method] = @ + 1]]

\* lines 65-71: the next table of the loop, wrapped, or the end of the loop
AdvanceGenerator(st, g) ==
    IF g.pos >= Len(g.source) THEN [g EXCEPT !.state = "exhausted"]
    ELSE LET table == g.source[g.pos + 1]
             ti == table_info(st, table)
         IN  IF ti.error # NoError THEN [g EXCEPT !.state = "raised"]
             ELSE [g EXCEPT !.pos = @ + 1,
                            !.yielded = Append(@,
                                [table |-> table,
                                 materials_provider |-> st.self._materials_provider,
                                 table_info |-> ti.ret,
                                 attribute_actions |-> st.self._attribute_actions])]

\* _transform_table(method, **kwargs), advanced once by its consumer
_transform_table(st, gs, i, calls) ==
    LET started == IF gs[i].state = "created" THEN StartGenerator(gs, i, calls)
                   ELSE [gens |-> gs, calls |-> calls]
    IN  [gens |-> [started.gens EXCEPT ![i] = AdvanceGenerator(st, @)],
         calls |-> started.calls]

------------------------------------------------------------------------------
(* Inputs of the batch calls *)

\* number of items of table TableSeq[i] in a layout (0 when the table is absent)
LenAt(len, i) == IF TableSeq[i] \in DOMAIN len THEN len[TableSeq[i]] ELSE 0

RECURSIVE TotalBefore(_, _)
TotalBefore(len, i) == IF i <= 1 THEN 0 ELSE LenAt(len, i - 1) + TotalBefore(len, i - 1)

Total(len) == TotalBefore(len, Len(TableSeq) + 1)

\* how many entries each table of a batch has: at least lo each, at most hi in all
Layouts(lo, hi) ==
    UNION {{len \in [T -> lo..hi] : Total(len) <= hi} : T \in (SUBSET Tables) \ {{}}}

\* the batch that gives each table its slice of flat
Batch(len, flat) ==
    [t \in DOMAIN len |->
        LET off == TotalBefore(len, FirstIndex(TableSeq, t))
        IN  [k \in 1..len[t] |-> flat[off + k]]]

Item1 == [id |-> Plain(1), gsi |-> Plain(5), data |-> Plain(7)]
ItemReserved == ("id" :> Plain(3)) @@ (ReservedAttribute :> Plain(0))
PutItems == {Item1, ItemReserved}

WriteRequestKinds ==
    {[PutRequest |-> [Item |-> i]] : i \in PutItems}
        \cup {[DeleteRequest |-> [Key |-> [id |-> Plain(1)]]]}

\* with and without the optional crypto_config argument
WithCryptoConfig(kwargs) == {kwargs, kwargs @@ [crypto_config |-> RequestConfig]}

WriteKwargs ==
    UNION {WithCryptoConfig([RequestItems |-> Batch(len, flat)]) :
             <<len, flat>> \in UNION {{<<l, f>> : f \in [1..Total(l) -> WriteRequestKinds]} :
                                         l \in Layouts(1, MaxReqs)}}

ReadSpecs ==
    {[Keys |-> <<[id |-> Plain(1)]>>],
     [Keys |-> <<[id |-> Plain(1)]>>, ProjectionExpression |-> "data"]}

GetKwargs ==
    UNION {WithCryptoConfig([RequestItems |-> ri]) :
             ri \in UNION {[T -> ReadSpecs] : T \in (SUBSET Tables) \ {{}}}}

\* stored items: one written through the resource to table A, one written in
\* plaintext, one written with the caller's own RequestConfig
RawDefault == [id |-> Plain(1), data |-> Cipher(7, "DefaultCMP", [table_name |-> "A"])]
RawPlain == [id |-> Plain(2), data |-> Plain(8)]
RawCustom ==
    [id |-> Cipher(1, "OtherCMP", [table_name |-> "custom"]),
     data |-> Cipher(7, "OtherCMP", [table_name |-> "custom"])]
RawItems == {RawDefault, RawPlain, RawCustom}

NoAnswer == [Responses |-> <<>>, UnprocessedKeys |-> <<>>]

\* the answers the underlying batch read can give to a request: items for each of
\* its tables.  A request that names a missing table is refused, and one with an
\* unsupported read spec is not meant to get there: their answer is never read.
RawResponses(kwargs) ==
    LET T == DOMAIN kwargs.RequestItems
    IN  IF T \subseteq Existing /\ \A t \in T : DOMAIN kwargs.RequestItems[t] = {"Keys"}
        THEN {[Responses |-> Batch(lf[1], lf[2]), UnprocessedKeys |-> <<>>] :
                lf \in UNION {{<<l, f>> : f \in [1..Total(l) -> RawItems]} :
                                 l \in {x \in Layouts(0, MaxItems) : DOMAIN x = T}}}
        ELSE {NoAnswer}

\* the optional arguments of Table(), each given or not
Optional(key, values) == {<<>>} \cup {key :> v : v \in values}

TableKwargs ==
    {mp @@ aa @@ ar @@ ti :
        mp \in Optional("materials_provider", {"OtherCMP"}),
        aa \in Optional("attribute_actions", {CallerActionsRef}),
        ar \in Optional("auto_refresh_table_indexes", BOOLEAN),
        ti \in Optional("table_info", {CallerTableInfo})}

------------------------------------------------------------------------------
(* The caller and the calls *)

NoCall ==
    [op |-> "none", kwargs |-> <<>>, error |-> NoError, log |-> <<>>, configs |-> <<>>,
     sent |-> <<>>, raw |-> NoAnswer, response |-> <<>>, built |-> <<>>]

\* the objects that outlive a call
Persistent(h) == SubSeq(h, 1, CallerActionsRef)

DefaultActions ==
    {[default_action |-> d, attribute_actions |-> f] :
        d \in CryptoActions,
        f \in {<<>>} \cup {[id |-> a] : a \in CryptoActions}}

Init ==
    /\ \E aa \in DefaultActions : heap = <<aa, CallerActions>>
    /\ self = [_materials_provider |-> "DefaultCMP",
               _attribute_actions |-> SelfActionsRef,
               _auto_refresh_table_indexes |-> TRUE]
    /\ constructed = [self |-> self, attribute_actions |-> heap[SelfActionsRef]]
    /\ pc = "ready"
    /\ call = NoCall
    /\ gens = <<>>
    /\ collectionCalls = [m \in CollectionMethods |-> 0]

BatchWriteItem ==
    /\ pc = "ready"
    /\ \E kwargs \in WriteKwargs :
       \E order \in Perms(DOMAIN kwargs.RequestItems) :
          LET r == batch_write_item(NewExec(heap, self, kwargs.RequestItems), kwargs, order)
          IN  /\ heap' = Persistent(r.heap)
              /\ self' = r.self
              /\ call' = [NoCall EXCEPT !.op = "batch_write_item", !.kwargs = kwargs,
                             !.error = r.error, !.log = r.log, !.configs = r.configs,
                             !.sent = r.sent,
                             !.response = IF r.error = NoError THEN r.ret ELSE <<>>]
    /\ pc' = "returned"
    /\ UNCHANGED <<constructed, gens, collectionCalls>>

BatchGetItem ==
    /\ pc = "ready"
    /\ \E kwargs \in GetKwargs :
       \E order \in Perms(DOMAIN kwargs.RequestItems) :
       \E raw \in RawResponses(kwargs) :
       \E rorder \in Perms(DOMAIN raw.Responses) :
          LET r == batch_get_item(NewExec(heap, self, <<>>), kwargs, order, raw, rorder)
              invoked == r.sent # <<>>
          IN  /\ heap' = Persistent(r.heap)
              /\ self' = r.self
              /\ call' = [NoCall EXCEPT !.op = "batch_get_item", !.kwargs = kwargs,
                             !.error = r.error, !.log = r.log, !.configs = r.configs,
                             !.sent = r.sent,
                             !.raw = IF invoked THEN raw ELSE NoAnswer,
                             !.response = IF r.error = NoError THEN r.ret ELSE <<>>]
    /\ pc' = "returned"
    /\ UNCHANGED <<constructed, gens, collectionCalls>>

TableCall ==
    /\ pc = "ready"
    /\ \E name \in Tables, kwargs \in TableKwargs :
          LET r == Table(NewExec(heap, self, <<>>), name, kwargs)
          IN  /\ heap' = Persistent(r.heap)
              /\ self' = r.self
              /\ call' = [NoCall EXCEPT !.op = "Table",
                             !.kwargs = [name |-> name, kwargs |-> kwargs],
                             !.error = r.error, !.log = r.log,
                             !.built = IF r.error = NoError THEN r.ret ELSE <<>>]
    /\ pc' = "returned"
    /\ UNCHANGED <<constructed, gens, collectionCalls>>

\* the caller is done with the result of the call
Continue ==
    /\ pc = "returned"
    /\ pc' = "ready"
    /\ call' = NoCall
    /\ UNCHANGED <<heap, self, constructed, gens, collectionCalls>>

------------------------------------------------------------------------------
(* The tables collection and its consumers *)

All ==
    /\ Len(gens) < MaxGens
    /\ gens' = Append(gens, NewGenerator("all", <<>>))
    /\ UNCHANGED <<heap, self, constructed, pc, call, collectionCalls>>

Filter ==
    /\ Len(gens) < MaxGens
    /\ \E kwargs \in {<<>>, [ExclusiveStartTableName |-> "A"]} :
          gens' = Append(gens, NewGenerator("filter", kwargs))
    /\ UNCHANGED <<heap, self, constructed, pc, call, collectionCalls>>

Limit ==
    /\ Len(gens) < MaxGens
    /\ gens' = Append(gens, NewGenerator("limit", [count |-> 1]))
    /\ UNCHANGED <<heap, self, constructed, pc, call, collectionCalls>>

PageSize ==
    /\ Len(gens) < MaxGens
    /\ gens' = Append(gens, NewGenerator("page_size", [count |-> 1]))
    /\ UNCHANGED <<heap, self, constructed, pc, call, collectionCalls>>

\* a consumer asks generator i for its next table
NextTable ==
    /\ \E i \in DOMAIN gens :
          /\ gens[i].state \in {"created", "running"}
          /\ LET r == _transform_table(NewExec(heap, self, <<>>), gens, i, collectionCalls)
             IN  /\ gens' = r.gens
                 /\ collectionCalls' = r.calls
    /\ UNCHANGED <<heap, self, constructed, pc, call>>

NextTables == All \/ Filter \/ Limit \/ PageSize \/ NextTable

SpecTables == Init /\ [][NextTables]_vars

Next == BatchGetItem \/ BatchWriteItem \/ TableCall \/ Continue

Spec == Init /\ [][Next]_vars

------------------------------------------------------------------------------
(* Properties *)

IsBatch == call.op \in {"batch_get_item", "batch_write_item"}
HasOverride == "crypto_config" \in DOMAIN call.kwargs

\* item transformed by itself with a configuration given by value
OneObject(config) == NewExec(<<config.attribute_actions>>, self, <<>>)
EncryptedWith(item, config) ==
    encrypt_python_item(OneObject(config), item, [config EXCEPT !.attribute_actions = 1]).ret
DecryptedWith(item, config) ==
    decrypt_python_item(OneObject(config), item, [config EXCEPT !.attribute_actions = 1]).ret

\* the caller's RequestConfig, by value
RequestConfigValue == [RequestConfig EXCEPT !.attribute_actions = CallerActions]

\* C1: every CryptoConfig resolved for a table (no crypto_config given) gives every
\* attribute of the table's protected_index_keys() the action DO_NOTHING, whatever
\* the resource's default AttributeActions say about it.
C1_IndexKeysUnprotected ==
    (IsBatch /\ ~HasOverride) =>
        \A t \in DOMAIN call.configs :
            \A k \in protected_index_keys(TableInfoOf(t)) :
                attribute_action(call.configs[t].attribute_actions, k) = "DO_NOTHING"

\* a batch write resolved table B's configuration from defaults that protect
\* everything and name the key attribute id as ENCRYPT_AND_SIGN
C1_Witness ==
    /\ call.op = "batch_write_item" /\ ~HasOverride
    /\ "B" \in DOMAIN call.configs
    /\ constructed.attribute_actions =
          [default_action |-> "ENCRYPT_AND_SIGN",
           attribute_actions |-> [id |-> "ENCRYPT_AND_SIGN"]]

\* C2: the resource's default AttributeActions is the object it was constructed
\* with and has the content it had at construction, after any calls.
C2_SharedDefaultUntouched ==
    /\ self._attribute_actions = constructed.self._attribute_actions
    /\ heap[self._attribute_actions] = constructed.attribute_actions

\* a batch read resolved the configurations of A and B, and the adjusted copy
\* differs from the default
C2_Witness ==
    /\ call.op = "batch_get_item" /\ ~HasOverride
    /\ DOMAIN call.configs = {"A", "B"}
    /\ call.configs["B"].attribute_actions # constructed.attribute_actions
    /\ call.configs["A"].attribute_actions # call.configs["B"].attribute_actions

\* C3: what batch_write_item hands to the underlying batch write has the caller's
\* tables, and per table the caller's requests in number and order: a DeleteRequest
\* as given, a PutRequest with its Item replaced by the encrypted Item.
C3_OnlyPutsTransformed ==
    (call.op = "batch_write_item" /\ call.sent # <<>>) =>
        LET in == call.kwargs.RequestItems
            out == call.sent[1].RequestItems
        IN  /\ DOMAIN out = DOMAIN in
            /\ \A t \in DOMAIN in :
                 /\ Len(out[t]) = Len(in[t])
                 /\ \A pos \in 1..Len(in[t]) :
                      IF "PutRequest" \in DOMAIN in[t][pos]
                      THEN out[t][pos] =
                             [PutRequest |->
                                [Item |-> EncryptedWith(in[t][pos].PutRequest.Item,
                                                        call.configs[t])]]
                      ELSE out[t][pos] = in[t][pos]

\* table A's list held a DeleteRequest followed by a PutRequest whose Item changed
C3_Witness ==
    /\ call.op = "batch_write_item" /\ call.sent # <<>>
    /\ "A" \in DOMAIN call.kwargs.RequestItems
    /\ Len(call.kwargs.RequestItems["A"]) >= 2
    /\ "DeleteRequest" \in DOMAIN call.kwargs.RequestItems["A"][1]
    /\ "PutRequest" \in DOMAIN call.kwargs.RequestItems["A"][2]
    /\ call.sent[1].RequestItems["A"][2] # call.kwargs.RequestItems["A"][2]

\* C4: a batch call given crypto_config never asks the table-info cache, and uses
\* that configuration for every table and every item it encrypts or decrypts.
C4_OverrideUsedVerbatim ==
    (IsBatch /\ HasOverride) =>
        /\ "table_info" \notin Range(call.log)
        /\ \A t \in DOMAIN call.configs : call.configs[t] = RequestConfigValue
        /\ (call.op = "batch_write_item" /\ call.sent # <<>>) =>
              \A t \in DOMAIN call.kwargs.RequestItems :
              \A pos \in 1..Len(call.kwargs.RequestItems[t]) :
                 "PutRequest" \in DOMAIN call.kwargs.RequestItems[t][pos] =>
                     call.sent[1].RequestItems[t][pos].PutRequest.Item =
                        EncryptedWith(call.kwargs.RequestItems[t][pos].PutRequest.Item,
                                      RequestConfigValue)
        /\ (call.op = "batch_get_item" /\ call.error = NoError) =>
              \A t \in DOMAIN call.raw.Responses :
              \A pos \in 1..Len(call.raw.Responses[t]) :
                 call.response.Responses[t][pos] =
                    DecryptedWith(call.raw.Responses[t][pos], RequestConfigValue)

\* a batch read with crypto_config returned items of A and of B, decrypted
C4_Witness ==
    /\ call.op = "batch_get_item" /\ HasOverride /\ call.error = NoError
    /\ DOMAIN call.raw.Responses = {"A", "B"}
    /\ \A t \in {"A", "B"} :
          /\ Len(call.raw.Responses[t]) >= 1
          /\ call.response.Responses[t][1] # call.raw.Responses[t][1]

\* C5: batch_get_item returns, for each table of the underlying response, as many
\* items as the raw sequence has, the i-th being the decryption of the raw i-th
\* with that table's configuration.
C5_DecryptedInPlace ==
    (call.op = "batch_get_item" /\ call.error = NoError) =>
        /\ DOMAIN call.response.Responses = DOMAIN call.raw.Responses
        /\ \A t \in DOMAIN call.raw.Responses :
             /\ Len(call.response.Responses[t]) = Len(call.raw.Responses[t])
             /\ \A pos \in 1..Len(call.raw.Responses[t]) :
                  call.response.Responses[t][pos] =
                     DecryptedWith(call.raw.Responses[t][pos], call.configs[t])

\* two different items for A, the first one changed by decryption, and one for B
C5_Witness ==
    /\ call.op = "batch_get_item" /\ call.error = NoError /\ ~HasOverride
    /\ DOMAIN call.raw.Responses = {"A", "B"}
    /\ Len(call.response.Responses["A"]) = 2
    /\ Len(call.response.Responses["B"]) = 1
    /\ call.raw.Responses["A"][1] # call.raw.Responses["A"][2]
    /\ call.response.Responses["A"][1] # call.raw.Responses["A"][1]

UnsupportedReadSpec(table_kwargs) == "ProjectionExpression" \in DOMAIN table_kwargs

\* C6: the underlying batch read is invoked only after the read spec of every table
\* of the request was validated, and not at all when one of them (at whatever
\* position) is rejected: the call then fails.
C6_ValidatedBeforeRead ==
    call.op = "batch_get_item" =>
        LET specs == call.kwargs.RequestItems
            at == FirstIndex(call.log, "batch_get_item")
        IN  /\ (\E t \in DOMAIN specs : UnsupportedReadSpec(specs[t])) =>
                  /\ call.sent = <<>>
                  /\ "batch_get_item" \notin Range(call.log)
                  /\ call.error = "InvalidArgumentError"
            /\ call.sent # <<>> =>
                  /\ at > 0
                  /\ Count(SubSeq(call.log, 1, at - 1), "validate") = Cardinality(DOMAIN specs)

\* the spec validated first passed, a later one was rejected
C6_Witness ==
    /\ call.op = "batch_get_item"
    /\ call.error = "InvalidArgumentError"
    /\ Count(call.log, "validate") >= 2
    /\ call.sent = <<>>

PutCount(items) == Cardinality({pos \in DOMAIN items : "PutRequest" \in DOMAIN items[pos]})

RECURSIVE PutTotal(_, _)
PutTotal(ri, T) ==
    IF T = {} THEN 0
    ELSE LET t == CHOOSE x \in T : TRUE IN PutCount(ri[t]) + PutTotal(ri, T \ {t})

CannotEncrypt(ri) ==
    \E t \in DOMAIN ri : \E pos \in DOMAIN ri[t] :
        /\ "PutRequest" \in DOMAIN ri[t][pos]
        /\ ReservedAttribute \in DOMAIN ri[t][pos].PutRequest.Item

\* C7: batch_write_item invokes the underlying batch write at most once, as its last
\* step, after the Item of every PutRequest of every table was encrypted; when an
\* encryption or the resolution of a table's configuration fails, the call fails and
\* the underlying batch write is not invoked.
C7_AllOrNothingWrite ==
    call.op = "batch_write_item" =>
        LET ri == call.kwargs.RequestItems
        IN  /\ Len(call.sent) <= 1
            /\ Count(call.log, "batch_write_item") = Len(call.sent)
            /\ call.sent # <<>> =>
                  /\ call.log[Len(call.log)] = "batch_write_item"
                  /\ Count(call.log, "encrypt") = PutTotal(ri, DOMAIN ri)
                  /\ ~HasOverride => Count(call.log, "table_info") = Cardinality(DOMAIN ri)
            /\ (CannotEncrypt(ri) \/ (~HasOverride /\ ~(DOMAIN ri \subseteq Existing))) =>
                  /\ call.sent = <<>>
                  /\ call.error \in {"EncryptionError", "TableInfoUnavailable"}

\* one table's Item was encrypted, then an encryption for a second table failed
C7_Witness ==
    /\ call.op = "batch_write_item"
    /\ call.error = "EncryptionError"
    /\ Count(call.log, "encrypt") >= 2
    /\ Cardinality(DOMAIN call.configs) >= 2
    /\ call.sent = <<>>

Started(m) == {i \in DOMAIN gens : gens[i].method = m /\ gens[i].state # "created"}

\* C8: every generator obtained from all/filter/limit/page_size that was advanced
\* has invoked its underlying collection method itself (as many invocations as
\* generators advanced); what it yields are the underlying tables in their order,
\* each wrapped once, and all of them when it is exhausted.
C8_EnumerationsIndependent ==
    /\ \A m \in CollectionMethods : collectionCalls[m] = Cardinality(Started(m))
    /\ \A i \in DOMAIN gens :
         LET g == gens[i]
             underlying == collection_method(g.method, g.kwargs)
         IN  /\ g.pos = Len(g.yielded)
             /\ g.pos <= Len(underlying)
             /\ \A k \in 1..g.pos :
                  g.yielded[k] =
                     [table |-> underlying[k],
                      materials_provider |-> constructed.self._materials_provider,
                      table_info |-> TableInfoOf(underlying[k]),
                      attribute_actions |-> constructed.self._attribute_actions]
             /\ g.state = "exhausted" => g.pos = Len(underlying)

\* all() was called twice and both enumerations were consumed to the end
C8_Witness ==
    /\ Len(gens) >= 2
    /\ \A i \in 1..2 : gens[i].method = "all" /\ gens[i].state = "exhausted"
                         /\ Len(gens[i].yielded) = Len(CollectionTables)
    /\ collectionCalls["all"] = 2

TableKwargsOf == call.kwargs.kwargs
Chosen(key, default) == IF key \in DOMAIN TableKwargsOf THEN TableKwargsOf[key] ELSE default

\* C9: Table(name, **overrides) passes to EncryptedTable, for each of
\* materials_provider, attribute_actions and auto_refresh_table_indexes, the
\* override when given and else the value the resource was constructed with; the
\* resource's own values stay what they were at construction.
C9_TableOverridesAreLocal ==
    call.op = "Table" =>
        /\ self = constructed.self
        /\ heap[self._attribute_actions] = constructed.attribute_actions
        /\ call.error = NoError =>
              /\ call.built.table = call.kwargs.name
              /\ call.built.materials_provider =
                    Chosen("materials_provider", constructed.self._materials_provider)
              /\ call.built.attribute_actions =
                    Chosen("attribute_actions", constructed.self._attribute_actions)
              /\ call.built.auto_refresh_table_indexes =
                    Chosen("auto_refresh_table_indexes",
                           constructed.self._auto_refresh_table_indexes)

\* a Table call that overrides two of the three values and leaves one to the default
C9_Witness ==
    /\ call.op = "Table" /\ call.error = NoError
    /\ DOMAIN TableKwargsOf = {"materials_provider", "auto_refresh_table_indexes"}
    /\ call.built.materials_provider = "OtherCMP"
    /\ call.built.auto_refresh_table_indexes = FALSE
    /\ call.built.attribute_actions = SelfActionsRef

\* C10: Table(name, table_info=...) builds the EncryptedTable with the TableInfo
\* supplied, and with the cache's TableInfo of that name only when none is supplied.
C10_TableInfoOverride ==
    (call.op = "Table" /\ call.error = NoError) =>
        call.built.table_info = Chosen("table_info", TableInfoOf(call.kwargs.name))

====
